---- MODULE Spec2Model ----
(***************************************************************************)
(* FeedAggregator (vwkd/json-feed-aggregator): a JSON Feed aggregator that *)
(* caches its items in Deno KV.  The model covers the class of             *)
(* src/main.ts (kept in src/tests/approximate_test.ts, lines 59-375):      *)
(* #read, #clean, #write, add and toJSON, the KV store they talk to, and   *)
(* the callers that construct engines and await their calls.               *)
(*                                                                         *)
(* JavaScript runs every stretch of code between two awaits to completion, *)
(* so each action below is one such stretch.  Optional values (a field     *)
(* that may be undefined) are sequences of length 0 or 1: <<>> is          *)
(* undefined, <<v>> is the value v.                                        *)
(***************************************************************************)
EXTENDS Naturals, Sequences, FiniteSets, TLC

\* ---------------------------------------------------------------- bounds
\* The clock runs over 0..MaxTime (milliseconds of the Date objects).
MaxTime == 1
\* add(...items) is called with at most MaxItems submissions.
MaxItems == 2
\* At most MaxWrites #write tasks of one engine slot are in flight at once
\* (fewer where a profile says so).
MaxWrites == 2
\* A slot holds at most MaxSessions objects, one after the other.
MaxSessions == 3
\* Stand-in for the 1000 of approximate_test.ts line 76, scaled down so that
\* the bounded #itemsAdded spans more than one chunk.
DENO_KV_MAX_BATCH_SIZE == 1

\* ------------------------------------------------------------ universes
\* Engine slots: a slot holds one FeedAggregator object at a time.
Engines == {1, 2}
\* Item ids and contents as the tests use them (ITEM1, ITEM1_2, ...).
Ids == {"1", "2"}
Contents == {"foo", "bar"}
\* The prefix of the tests, and a prefix that is a leading part of it.
PREFIX == <<"foo", "bar">>
Prefixes == {<<"foo">>, PREFIX}
\* Deno KV orders string key parts bytewise.
PartOrder == <<"1", "2", "bar", "foo">>

undefined == <<>>

\* Date.prototype.toISOString: the string form of an instant.
toISOString(t) == ToString(t)

\* The values of shouldApproximateDate: omitted, false, true.
Flags == {"undefined", "false", "true"}
Truthy(flag) == flag = "true"

ExpireAts == {undefined} \cup {<<t>> : t \in 1..MaxTime}

\* A submission of an item without dates of its own, as in the tests.
Sub(id, content, expireAt, flag) ==
  [item |-> [id |-> id, content |-> content,
             date_published |-> undefined, date_modified |-> undefined],
   expireAt |-> expireAt, shouldApproximateDate |-> flag]

\* A submission of an item that carries a date: the ISO string of instant 0.
Dated(id, content, published, modified, flag) ==
  [item |-> [id |-> id, content |-> content,
             date_published |-> IF published THEN <<toISOString(0)>> ELSE undefined,
             date_modified |-> IF modified THEN <<toISOString(0)>> ELSE undefined],
   expireAt |-> undefined, shouldApproximateDate |-> flag]

\* The AggregatorItems (types.ts lines 14-21) that the callers of a profile
\* submit.
\*   "one":   one id in every way add tells apart: both contents, with and
\*            without approximation, with and without expiry, with dates;
\*   "plain": one id, no approximation, an expiry or none;
\*   "batch": two ids, no approximation, an expiry or none for the second;
\*   "expiry": one id and content, with and without approximation, an
\*            expiry within the clock's range or one after it, or none;
\*   "versions": one id in two versions, one of them with an expiry, no
\*            approximation.
Submissions(u) ==
  IF u = "one" THEN
    {Sub("1", c, x, f) : c \in Contents, x \in ExpireAts, f \in {"undefined", "true"}}
    \cup {Sub("1", "foo", undefined, "false")}
    \cup {Dated("1", "foo", TRUE, FALSE, "true"), Dated("1", "foo", FALSE, TRUE, "true"),
          Dated("1", "foo", TRUE, FALSE, "undefined"),
          [Dated("1", "foo", TRUE, FALSE, "true") EXCEPT !.expireAt = <<1>>]}
  ELSE IF u = "plain" THEN
    {Sub("1", c, x, "undefined") : c \in Contents, x \in {undefined, <<1>>}}
  ELSE IF u = "versions" THEN
    {Sub("1", "foo", undefined, "undefined"), Sub("1", "bar", <<1>>, "undefined")}
  ELSE IF u = "expiry" THEN
    {Sub("1", "foo", x, f) : x \in {<<1>>, <<MaxTime + 1>>}, f \in {"undefined", "true"}}
    \cup {Sub("1", "foo", undefined, "undefined")}
  ELSE
    {Sub("1", "foo", undefined, "undefined")}
    \cup {Sub("2", "foo", x, "undefined") : x \in {undefined, <<1>>}}

\* The keys of the store: a prefix followed by an item id.
Keys == {p \o <<i>> : p \in Prefixes, i \in Ids}

\* ---------------------------------------------------------------- state
VARIABLES
  currentDate,   \* the clock: SharedDate.value, or what new Date() returns
  kv,            \* the Deno KV store: key -> <<>> or <<[value, deadline]>>
  profile,       \* what the callers do: the slots in use, the prefixes they
                 \* construct engines with, what they submit, how many
                 \* #write tasks they let a slot have in flight, how many
                 \* objects each slot holds one after the other, and how many
                 \* submissions they pass to one add call
  session,       \* per slot: how many objects it has held
  prefix,        \* #prefix of the object in each slot
  initialized,   \* #initialized
  itemsCached,   \* #itemsCached
  itemsAdded,    \* #itemsAdded
  pc,            \* where the slot's caller is: "idle", "add", "loop", "toJSON"
  now,           \* the `now` the running call captured (0 between calls)
  argc,          \* submissions of the running add call not yet processed
  writes,        \* the #write tasks in flight, per slot
  ret,           \* how the last call on the slot's object ended
  feed,          \* the entries whose items the slot's last toJSON returned,
                 \* and the session that call was made in
  unhandled,     \* per slot: since the last call began, a #write task has
                 \* rejected with nothing awaiting it
  replaced       \* history, kept where the profile says so: the items of
                 \* the slot's objects that add has replaced and not
                 \* accepted again since, each with the session it was
                 \* replaced in

vars == <<currentDate, kv, profile, session, prefix, initialized, itemsCached,
          itemsAdded, pc, now, argc, writes, ret, feed, unhandled, replaced>>

\* ------------------------------------------------------- the KV store
\* A key is under a prefix selector when it is longer and starts with it.
HasPrefix(key, p) == Len(key) > Len(p) /\ SubSeq(key, 1, Len(p)) = p

Rank(part) == CHOOSE i \in 1..Len(PartOrder) : PartOrder[i] = part

\* The store's key order: part by part, a proper leading part first.
RECURSIVE KeyLess(_, _)
KeyLess(a, b) ==
  IF a = <<>> THEN b # <<>>
  ELSE IF b = <<>> THEN FALSE
  ELSE IF Head(a) # Head(b) THEN Rank(Head(a)) < Rank(Head(b))
  ELSE KeyLess(Tail(a), Tail(b))

RECURSIVE SortKeys(_)
SortKeys(ks) ==
  IF ks = {} THEN <<>>
  ELSE LET k == CHOOSE x \in ks : \A y \in ks \ {x} : KeyLess(x, y)
       IN <<k>> \o SortKeys(ks \ {k})

\* kv.list({ prefix }): the values of the entries under the prefix, in key
\* order, collected by Array.fromAsync and mapped to their values.
List(store, p) ==
  LET ks == SortKeys({k \in Keys : HasPrefix(k, p) /\ store[k] # <<>>})
  IN [i \in 1..Len(ks) |-> store[ks[i]][1].value]

\* A commit that merges: a key that is already set keeps the item it has
\* and takes the rest of the new value.
Commit_Merge(store, ops, t) ==
  [k \in Keys |->
     IF \E i \in 1..Len(ops) : ops[i].key = k
     THEN LET i == CHOOSE j \in 1..Len(ops) : ops[j].key = k
          IN <<[value |-> IF store[k] = <<>> THEN ops[i].value
                          ELSE [ops[i].value EXCEPT !.item = store[k][1].value.item],
                deadline |-> IF ops[i].expireIn = undefined THEN undefined
                             ELSE <<t + ops[i].expireIn[1]>>]>>
     ELSE store[k]]

\* kv.atomic().mutate(...ops).commit() at instant t: every set of the chunk
\* is applied, a set with expireIn getting a deadline that far from t.
Commit(store, ops, t) ==
  [k \in Keys |->
     IF \E i \in 1..Len(ops) : ops[i].key = k
     THEN LET i == CHOOSE j \in 1..Len(ops) :
                     ops[j].key = k /\ \A l \in (j+1)..Len(ops) : ops[l].key # k
          IN <<[value |-> ops[i].value,
                deadline |-> IF ops[i].expireIn = undefined THEN undefined
                             ELSE <<t + ops[i].expireIn[1]>>]>>
     ELSE store[k]]

\* ------------------------------------------------------ pure helpers
\* equal of @std/assert: deep structural equality.
equal(a, b) == a = b

\* A filter that keeps an entry through the instant of its expireAt.
NotExpired_Inclusive(entry, t) ==
  entry.expireAt = undefined \/ entry.expireAt[1] >= t

\* The filter of #clean: `!expireAt || expireAt > now`.
NotExpired(entry, t) == entry.expireAt = undefined \/ entry.expireAt[1] > t

\* A #clean that keeps every entry.
clean_Keep(items, t) == items

\* A #clean that reads the clock again instead of taking the call's `now`.
clean_Resampled(items, t) ==
  SelectSeq(items, LAMBDA entry : NotExpired(entry, currentDate))

\* #clean(now), for either of #itemsCached and #itemsAdded.
clean(items, t) == SelectSeq(items, LAMBDA entry : NotExpired(entry, t))

\* A chunking that puts all elements in one slice.
chunk_Whole(items, size) == IF Len(items) = 0 THEN <<>> ELSE <<items>>

\* chunk of @std/collections: consecutive slices of at most `size` elements.
RECURSIVE chunk(_, _)
chunk(items, size) ==
  IF Len(items) = 0 THEN <<>>
  ELSE IF Len(items) <= size THEN <<items>>
  ELSE <<SubSeq(items, 1, size)>> \o chunk(SubSeq(items, size + 1, Len(items)), size)

\* A set operation that takes the instant of expireAt for the time to live.
WriteOp_Absolute(p, entry, t) ==
  [key |-> p \o <<entry.item.id>>,
   value |-> entry,
   expireIn |-> entry.expireAt]

\* The set operation #write builds for one added item.
WriteOp(p, entry, t) ==
  [key |-> p \o <<entry.item.id>>,
   value |-> entry,
   expireIn |-> IF entry.expireAt = undefined THEN undefined
                ELSE <<entry.expireAt[1] - t>>]

WriteOps(p, items, t) == [i \in 1..Len(items) |-> WriteOp(p, items[i], t)]

\* `{ date_published: _, ...rest }`: the item without its published date.
Rest(item) ==
  [id |-> item.id, content |-> item.content, date_modified |-> item.date_modified]

\* A lookup that finds no id.
HasId_Never(items, id) == FALSE

\* A lookup that finds every id.
HasId_Always(items, id) == TRUE

HasId(items, id) == \E i \in 1..Len(items) : items[i].item.id = id

\* Array.prototype.find: the first entry with the id.
Find(items, id) ==
  items[CHOOSE i \in 1..Len(items) :
          items[i].item.id = id /\ \A j \in 1..(i-1) : items[j].item.id # id]

\* A filter that keeps the existing entry.
WithoutId_Keep(items, id) == items

\* `this.#itemsCached.filter(({ item }) => item.id != itemId)`.
WithoutId(items, id) == SelectSeq(items, LAMBDA entry : entry.item.id # id)

ItemsOf(items) == [i \in 1..Len(items) |-> items[i].item]

\* A changed item stamped with the call's `t` as both of its dates.
Stamp_Fresh(item, existingItem, t) ==
  [item EXCEPT !.date_published = <<toISOString(t)>>,
               !.date_modified = <<toISOString(t)>>]

\* A changed item of an approximated entry: the published date of the
\* existing item, and the call's `t` as its modified date.
Stamp(item, existingItem, t) ==
  [item EXCEPT !.date_published = existingItem.item.date_published,
               !.date_modified = <<toISOString(t)>>]

\* A stamping that leaves the item of a new id without a date.
StampNew_Skip(item, t) == item

\* `item.date_published = now.toISOString()` of an item whose id is not
\* cached.
StampNew(item, t) == [item EXCEPT !.date_published = <<toISOString(t)>>]

\* A comparison that finds every two flags alike.
Differs_Never(flag, existing) == FALSE

\* `shouldApproximateDate != existingItem.shouldApproximateDate`: loose
\* inequality of undefined, false and true, no two of which are equal.
Differs(flag, existing) == flag # existing

\* A check that looks at the published date only.
HasDate_PublishedOnly(item) == item.date_published # undefined

\* `item.date_published || item.date_modified`: the item carries a date.
HasDate(item) == item.date_published # undefined \/ item.date_modified # undefined

\* A check that lets a submission through at the instant of its expireAt.
AlreadyExpired_Strict(sub, t) == sub.expireAt # undefined /\ sub.expireAt[1] < t

\* `expireAt && expireAt <= now`: the submission has expired already.
AlreadyExpired(sub, t) == sub.expireAt # undefined /\ sub.expireAt[1] <= t

\* One turn of add's for loop on submission `sub`, with the call's `t`:
\* what it does ("throw", "continue" or "push"), the error it throws, and
\* #itemsCached and #itemsAdded after it.
addItem(cached, added, t, sub) ==
  LET item == sub.item
      itemId == item.id
      flag == sub.shouldApproximateDate
      out(kind, error, c, a) ==
        [kind |-> kind, error |-> error, cached |-> c, added |-> a]
  IN
  IF HasId(added, itemId)
    THEN out("throw", "Already added", cached, added)
  ELSE IF AlreadyExpired(sub, t)
    THEN out("continue", "", cached, added)
  ELSE IF Truthy(flag) /\ HasDate(item)
    THEN out("throw",
             IF item.date_published # undefined
             THEN "Should approximate date but already has published date"
             ELSE "Should approximate date but already has modified date",
             cached, added)
  ELSE IF HasId(cached, itemId)
    THEN LET existingItem == Find(cached, itemId) IN
         IF Differs(flag, existingItem.shouldApproximateDate)
           THEN out("throw",
                    "Should approximate date " \o flag \o " differs from existing "
                      \o existingItem.shouldApproximateDate,
                    cached, added)
         ELSE IF equal(existingItem, item)
           THEN out("continue", "", cached, added)
         ELSE IF Truthy(flag) /\ equal(Rest(item), Rest(existingItem.item))
           THEN out("continue", "", cached, added)
         ELSE LET stamped ==
                    IF Truthy(flag)
                    THEN Stamp(item, existingItem, t)
                    ELSE item
              IN out("push", "", WithoutId(cached, itemId),
                     Append(added, [item |-> stamped, expireAt |-> sub.expireAt,
                                    shouldApproximateDate |-> flag]))
  ELSE LET stamped ==
             IF Truthy(flag)
             THEN StampNew(item, t)
             ELSE item
       IN out("push", "", cached,
              Append(added, [item |-> stamped, expireAt |-> sub.expireAt,
                             shouldApproximateDate |-> flag]))

\* ------------------------------------------------------------- actions
NoCall == [op |-> "none", status |-> "ok"]

\* The state after `new FeedAggregator(kv, PREFIX, info, { currentDate })`
\* on an empty store, for callers of profile `pr`.
Start(pr) ==
  /\ currentDate = 0
  /\ kv = [k \in Keys |-> <<>>]
  /\ profile = pr
  /\ session = [e \in Engines |-> 1]
  /\ prefix = [e \in Engines |-> PREFIX]
  /\ initialized = [e \in Engines |-> FALSE]
  /\ itemsCached = [e \in Engines |-> <<>>]
  /\ itemsAdded = [e \in Engines |-> <<>>]
  /\ replaced = [e \in Engines |-> {}]
  /\ pc = [e \in Engines |-> "idle"]
  /\ now = [e \in Engines |-> 0]
  /\ argc = [e \in Engines |-> 0]
  /\ writes = [e \in Engines |-> <<>>]
  /\ ret = [e \in Engines |-> NoCall]
  /\ feed = [e \in Engines |-> <<>>]
  /\ unhandled = [e \in Engines |-> FALSE]

\* One engine slot on the prefix of the tests, every kind of submission of
\* one id, and toJSON called once the #write task before it has settled.
Init ==
  Start([engines |-> {1}, prefixes |-> {PREFIX}, universe |-> "one", writes |-> 1, sessions |-> <<MaxSessions, MaxSessions>>, items |-> MaxItems, history |-> FALSE])

\* No engine is inside add's for loop, which runs without an await.
NoLoop == \A e \in Engines : pc[e] # "loop"

Remove(seq, i) == SubSeq(seq, 1, i - 1) \o SubSeq(seq, i + 1, Len(seq))

\* A read that never lists the store.
read_Never(e) == itemsCached[e]

\* A #read that lists the store on every call.
read_Always(e) == List(kv, prefix[e])

\* #itemsCached after `await this.#read()`: listed on the first call only.
read(e) == IF initialized[e] THEN itemsCached[e] ELSE List(kv, prefix[e])

\* Time passes: the caller sets SharedDate.value, or the wall clock moves.
Tick ==
  /\ NoLoop
  /\ currentDate < MaxTime
  /\ currentDate' = currentDate + 1
  /\ UNCHANGED <<replaced, profile, feed, session, kv, prefix, initialized, itemsCached, itemsAdded, pc,
                 now, argc, writes, ret, unhandled>>

\* Deno KV deletes an entry at some time after its expireIn has run out.
Expire(k) ==
  /\ NoLoop
  /\ kv[k] # <<>>
  /\ kv[k][1].deadline # undefined
  /\ kv[k][1].deadline[1] <= currentDate
  /\ kv' = [kv EXCEPT ![k] = <<>>]
  /\ UNCHANGED <<replaced, profile, feed, session, currentDate, prefix, initialized, itemsCached,
                 itemsAdded, pc, now, argc, writes, ret, unhandled>>

\* A #write task whose object is gone still commits what is left of it.
Orphan(tasks) ==
  LET kept == SelectSeq(tasks, LAMBDA w : w.chunks # <<>>)
  IN [i \in 1..Len(kept) |-> [kept[i] EXCEPT !.live = FALSE]]

\* new FeedAggregator(kv, p, info, { currentDate }): the next session of a
\* slot.  Its caller drops the object it has, all its calls awaited, and
\* constructs another on the same store.
Construct(e, p) ==
  /\ NoLoop
  /\ pc[e] = "idle"
  /\ initialized[e]
  /\ session[e] < profile.sessions[e]
  /\ session' = [session EXCEPT ![e] = @ + 1]
  /\ prefix' = [prefix EXCEPT ![e] = p]
  /\ initialized' = [initialized EXCEPT ![e] = FALSE]
  /\ itemsCached' = [itemsCached EXCEPT ![e] = <<>>]
  /\ itemsAdded' = [itemsAdded EXCEPT ![e] = <<>>]
  /\ writes' = [writes EXCEPT ![e] = Orphan(@)]
  /\ ret' = [ret EXCEPT ![e] = NoCall]
  /\ unhandled' = [unhandled EXCEPT ![e] = FALSE]
  /\ UNCHANGED <<replaced, profile, feed, currentDate, kv, pc, now, argc>>

\* add(...items) with n items, up to its first await: `now` is taken.
AddCall(e, n) ==
  /\ NoLoop
  /\ pc[e] = "idle"
  /\ n <= profile.items
  /\ pc' = [pc EXCEPT ![e] = "add"]
  /\ now' = [now EXCEPT ![e] = currentDate]
  /\ argc' = [argc EXCEPT ![e] = n]
  /\ ret' = [ret EXCEPT ![e] = NoCall]
  /\ unhandled' = [unhandled EXCEPT ![e] = FALSE]
  /\ UNCHANGED <<replaced, profile, feed, session, currentDate, kv, prefix, initialized, itemsCached,
                 itemsAdded, writes>>

AddOk == [op |-> "add", status |-> "ok"]

\* add after `await this.#read()`: #clean(now), then the for loop starts.
AddRead(e) ==
  /\ NoLoop
  /\ pc[e] = "add"
  /\ initialized' = [initialized EXCEPT ![e] = TRUE]
  /\ itemsCached' = [itemsCached EXCEPT ![e] = clean(read(e), now[e])]
  /\ itemsAdded' = [itemsAdded EXCEPT ![e] = clean(@, now[e])]
  /\ IF argc[e] = 0
     THEN /\ pc' = [pc EXCEPT ![e] = "idle"]
          /\ now' = [now EXCEPT ![e] = 0]
          /\ ret' = [ret EXCEPT ![e] = AddOk]
     ELSE /\ pc' = [pc EXCEPT ![e] = "loop"]
          /\ now' = now
          /\ ret' = ret
  /\ UNCHANGED <<replaced, profile, feed, session, currentDate, kv, prefix, argc, writes, unhandled>>

\* The history of replacements after a turn of add's loop with outcome r in
\* session n: the item of the cached entry that an accepted submission
\* replaces joins it, the item that is accepted leaves it.
Replaced(history, cached, r, n) ==
  IF profile.history /\ r.kind = "push"
  THEN LET new == r.added[Len(r.added)].item
           old == {cached[i].item : i \in {j \in 1..Len(cached) : cached[j].item.id = new.id}}
       IN {x \in history : x.item # new}
            \cup {[item |-> y, session |-> n] : y \in old \ {new}}
  ELSE history

\* A turn of add's for loop that, when it throws, discards the pending
\* entries as a transaction would.
AddItem_Rollback(e, sub) ==
  /\ pc[e] = "loop"
  /\ LET r == addItem(itemsCached[e], itemsAdded[e], now[e], sub) IN
     /\ itemsCached' = [itemsCached EXCEPT ![e] = r.cached]
     /\ replaced' = [replaced EXCEPT ![e] = Replaced(@, itemsCached[e], r, session[e])]
     /\ IF r.kind = "throw"
        THEN /\ itemsAdded' = [itemsAdded EXCEPT ![e] = <<>>]
             /\ pc' = [pc EXCEPT ![e] = "idle"]
             /\ now' = [now EXCEPT ![e] = 0]
             /\ argc' = [argc EXCEPT ![e] = 0]
             /\ ret' = [ret EXCEPT ![e] = [AddOk EXCEPT !.status = r.error]]
        ELSE IF argc[e] = 1
        THEN /\ itemsAdded' = [itemsAdded EXCEPT ![e] = r.added]
             /\ pc' = [pc EXCEPT ![e] = "idle"]
             /\ now' = [now EXCEPT ![e] = 0]
             /\ argc' = [argc EXCEPT ![e] = 0]
             /\ ret' = [ret EXCEPT ![e] = AddOk]
        ELSE /\ itemsAdded' = [itemsAdded EXCEPT ![e] = r.added]
             /\ pc' = pc
             /\ now' = now
             /\ argc' = [argc EXCEPT ![e] = @ - 1]
             /\ ret' = ret
  /\ UNCHANGED <<profile, feed, session, currentDate, kv, prefix, initialized, writes, unhandled>>

\* One turn of add's for loop, on the next submission of the call; the call
\* throws out of the loop, or returns after its last submission.
AddItem(e, sub) ==
  /\ pc[e] = "loop"
  /\ LET r == addItem(itemsCached[e], itemsAdded[e], now[e], sub) IN
     /\ itemsCached' = [itemsCached EXCEPT ![e] = r.cached]
     /\ replaced' = [replaced EXCEPT ![e] = Replaced(@, itemsCached[e], r, session[e])]
     /\ itemsAdded' = [itemsAdded EXCEPT ![e] = r.added]
     /\ IF r.kind = "throw"
        THEN /\ pc' = [pc EXCEPT ![e] = "idle"]
             /\ now' = [now EXCEPT ![e] = 0]
             /\ argc' = [argc EXCEPT ![e] = 0]
             /\ ret' = [ret EXCEPT ![e] = [AddOk EXCEPT !.status = r.error]]
        ELSE IF argc[e] = 1
        THEN /\ pc' = [pc EXCEPT ![e] = "idle"]
             /\ now' = [now EXCEPT ![e] = 0]
             /\ argc' = [argc EXCEPT ![e] = 0]
             /\ ret' = [ret EXCEPT ![e] = AddOk]
        ELSE /\ pc' = pc
             /\ now' = now
             /\ argc' = [argc EXCEPT ![e] = @ - 1]
             /\ ret' = ret
  /\ UNCHANGED <<profile, feed, session, currentDate, kv, prefix, initialized, writes, unhandled>>

\* toJSON() up to its first await: `now` is taken.
ToJSONCall(e) ==
  /\ NoLoop
  /\ pc[e] = "idle"
  /\ Len(writes[e]) < profile.writes
  /\ pc' = [pc EXCEPT ![e] = "toJSON"]
  /\ now' = [now EXCEPT ![e] = currentDate]
  /\ unhandled' = [unhandled EXCEPT ![e] = FALSE]
  /\ UNCHANGED <<replaced, profile, feed, session, currentDate, kv, prefix, initialized, itemsCached,
                 itemsAdded, argc, writes, ret>>

\* #write(now) up to its first await: the task it leaves in flight, if any.
write(p, added, t) ==
  IF Len(added) = 0 THEN <<>>
  ELSE <<[chunks |-> chunk(WriteOps(p, added, t), DENO_KV_MAX_BATCH_SIZE),
          live |-> TRUE]>>

\* toJSON after `await this.#read()`: #clean(now), the call of #write(now),
\* which is not awaited, and the feed of the cached and the added items.
ToJSONBody(e) ==
  /\ NoLoop
  /\ pc[e] = "toJSON"
  /\ LET cached == clean(read(e), now[e])
         added == clean(itemsAdded[e], now[e])
     IN /\ initialized' = [initialized EXCEPT ![e] = TRUE]
        /\ itemsCached' = [itemsCached EXCEPT ![e] = cached]
        /\ itemsAdded' = [itemsAdded EXCEPT ![e] = added]
        /\ writes' = [writes EXCEPT ![e] = @ \o write(prefix[e], added, now[e])]
        /\ ret' = [ret EXCEPT ![e] = [op |-> "toJSON", status |-> "ok"]]
        /\ feed' = [feed EXCEPT ![e] =
                      <<[entries |-> cached \o added, session |-> session[e]]>>]
  /\ pc' = [pc EXCEPT ![e] = "idle"]
  /\ now' = [now EXCEPT ![e] = 0]
  /\ UNCHANGED <<replaced, profile, session, currentDate, kv, prefix, argc, unhandled>>

\* The store commits the next chunk of a #write task.
WriteCommit(e, i) ==
  /\ NoLoop
  /\ i \in 1..Len(writes[e])
  /\ writes[e][i].chunks # <<>>
  /\ kv' = Commit(kv, Head(writes[e][i].chunks), currentDate)
  /\ writes' = [writes EXCEPT ![e] =
                  IF ~writes[e][i].live /\ Len(writes[e][i].chunks) = 1
                  THEN Remove(@, i)
                  ELSE [@ EXCEPT ![i].chunks = Tail(@)]]
  /\ UNCHANGED <<replaced, profile, feed, session, currentDate, prefix, initialized, itemsCached,
                 itemsAdded, pc, now, argc, ret, unhandled>>

\* A failed chunk that folds the added items nonetheless.
WriteFail_Folds(e, i) ==
  /\ NoLoop
  /\ i \in 1..Len(writes[e])
  /\ writes[e][i].chunks # <<>>
  /\ writes' = [writes EXCEPT ![e] = Remove(@, i)]
  /\ unhandled' = [unhandled EXCEPT ![e] = @ \/ writes[e][i].live]
  /\ itemsCached' = [itemsCached EXCEPT ![e] = @ \o itemsAdded[e]]
  /\ itemsAdded' = [itemsAdded EXCEPT ![e] = <<>>]
  /\ UNCHANGED <<replaced, profile, feed, session, currentDate, kv, prefix, initialized,
                 pc, now, argc, ret>>

\* The store fails the next chunk of a #write task: the task's promise
\* rejects, and nothing awaits it.
WriteFail(e, i) ==
  /\ NoLoop
  /\ i \in 1..Len(writes[e])
  /\ writes[e][i].chunks # <<>>
  /\ writes' = [writes EXCEPT ![e] = Remove(@, i)]
  /\ unhandled' = [unhandled EXCEPT ![e] = @ \/ writes[e][i].live]
  /\ UNCHANGED <<replaced, profile, feed, session, currentDate, kv, prefix, initialized, itemsCached,
                 itemsAdded, pc, now, argc, ret>>

\* A #write task after its last commit: the added items become cached ones.
WriteDone(e, i) ==
  /\ NoLoop
  /\ i \in 1..Len(writes[e])
  /\ writes[e][i].chunks = <<>>
  /\ itemsCached' = [itemsCached EXCEPT ![e] = @ \o itemsAdded[e]]
  /\ itemsAdded' = [itemsAdded EXCEPT ![e] = <<>>]
  /\ writes' = [writes EXCEPT ![e] = Remove(@, i)]
  /\ UNCHANGED <<replaced, profile, feed, session, currentDate, kv, prefix, initialized, pc, now, argc,
                 ret, unhandled>>

Next ==
  \/ Tick
  \/ \E k \in Keys : Expire(k)
  \/ \E e \in profile.engines, p \in profile.prefixes : Construct(e, p)
  \/ \E e \in profile.engines, n \in 0..MaxItems : AddCall(e, n)
  \/ \E e \in profile.engines : AddRead(e)
  \/ \E e \in profile.engines, sub \in Submissions(profile.universe) : AddItem(e, sub)
  \/ \E e \in profile.engines : ToJSONCall(e)
  \/ \E e \in profile.engines : ToJSONBody(e)
  \/ \E e \in profile.engines, i \in 1..MaxWrites : WriteCommit(e, i)
  \/ \E e \in profile.engines, i \in 1..MaxWrites : WriteFail(e, i)
  \/ \E e \in profile.engines, i \in 1..MaxWrites : WriteDone(e, i)

Spec == Init /\ [][Next]_vars

\* The same engine with toJSON called while earlier #write tasks are still
\* in flight.
InitRace ==
  Start([engines |-> {1}, prefixes |-> {PREFIX}, universe |-> "plain",
         writes |-> MaxWrites, sessions |-> <<MaxSessions, MaxSessions>>, items |-> MaxItems, history |-> FALSE])

SpecRace == InitRace /\ [][Next]_vars

\* The same engine with two ids, so that a #write spans several chunks.
InitBatch ==
  Start([engines |-> {1}, prefixes |-> {PREFIX}, universe |-> "batch", writes |-> 1, sessions |-> <<MaxSessions, MaxSessions>>, items |-> MaxItems, history |-> FALSE])

SpecBatch == InitBatch /\ [][Next]_vars

\* Engines constructed on the prefix of the tests and on its leading part.
InitPrefixes ==
  Start([engines |-> {1}, prefixes |-> Prefixes, universe |-> "plain", writes |-> 1, sessions |-> <<MaxSessions, MaxSessions>>, items |-> MaxItems, history |-> FALSE])

SpecPrefixes == InitPrefixes /\ [][Next]_vars

\* The same engine with one item that is submitted with one expiry or a
\* later one.
InitExpiry ==
  Start([engines |-> {1}, prefixes |-> {PREFIX}, universe |-> "expiry", writes |-> 1, sessions |-> <<MaxSessions, MaxSessions>>, items |-> MaxItems, history |-> FALSE])

SpecExpiry == InitExpiry /\ [][Next]_vars

\* Two engines on one prefix of one store, each submitting versions of one
\* item.
InitShared ==
  Start([engines |-> Engines, prefixes |-> {PREFIX}, universe |-> "versions",
         writes |-> 1, sessions |-> <<MaxSessions - 1, 1>>, items |-> 1, history |-> FALSE])

SpecShared == InitShared /\ [][Next]_vars

\* One engine whose caller awaits each call, so that toJSON can be called
\* again while the #write task of the call before is in flight.
InitLive ==
  Start([engines |-> {1}, prefixes |-> {PREFIX}, universe |-> "plain",
         writes |-> MaxWrites, sessions |-> <<MaxSessions - 1, MaxSessions - 1>>,
         items |-> 1, history |-> FALSE])

\* What the event loop and the store owe a call: the code after an await
\* runs once the awaited promise has settled (lines 259, 362, 222-225, 228),
\* add's loop runs to its end, and the store answers every commit.
Fairness ==
  \A e \in Engines :
    /\ WF_vars(AddRead(e))
    /\ WF_vars(\E sub \in Submissions(profile.universe) : AddItem(e, sub))
    /\ WF_vars(ToJSONBody(e))
    /\ \A i \in 1..MaxWrites :
         /\ WF_vars(WriteCommit(e, i))
         /\ WF_vars(WriteDone(e, i))

SpecLive == InitLive /\ [][Next]_vars /\ Fairness

\* The same engine submitting versions of one item, with the history of
\* the items it has replaced.
InitHistory ==
  Start([engines |-> {1}, prefixes |-> {PREFIX}, universe |-> "versions",
         writes |-> 1, sessions |-> <<MaxSessions, MaxSessions>>, items |-> MaxItems,
         history |-> TRUE])

SpecHistory == InitHistory /\ [][Next]_vars

\* ============================================================== claims
\* The step in which toJSON returns its document.
Returns(e) == pc[e] = "toJSON" /\ pc'[e] = "idle"

\* The items of the document a toJSON returned: feed.add of the cached
\* items, then of the added ones.
Items(f) == ItemsOf(f[1].entries)

\* The entry is committed in the store under the object's prefix and its id.
Committed(store, p, entry) ==
  /\ store[p \o <<entry.item.id>>] # <<>>
  /\ store[p \o <<entry.item.id>>][1].value = entry

InSeq(x, seq) == \E i \in 1..Len(seq) : seq[i] = x

\* C1: when toJSON returns, the flush it started is complete: #itemsAdded
\* is empty, and every entry that was pending and not expired at the call's
\* `now` is in #itemsCached and committed under prefix + id.
C1_FlushCompleteOnReturn ==
  [][\A e \in Engines :
       Returns(e) =>
         /\ itemsAdded'[e] = <<>>
         /\ \A i \in 1..Len(itemsAdded[e]) :
              NotExpired(itemsAdded[e][i], now[e]) =>
                /\ InSeq(itemsAdded[e][i], itemsCached'[e])
                /\ Committed(kv', prefix[e], itemsAdded[e][i])]_vars

\* The submission carries the item of the cached entry as its caller gave
\* it, with the same approximation flag; the published date of an
\* approximated entry is the engine's, not the caller's.
Identical(sub, existing) ==
  /\ sub.shouldApproximateDate = existing.shouldApproximateDate
  /\ sub.item = IF Truthy(sub.shouldApproximateDate)
                THEN [existing.item EXCEPT !.date_published = undefined]
                ELSE existing.item

\* C2: an add of a submission whose item is identical to the cached entry's
\* item, with the same approximation flag, leaves #itemsCached and
\* #itemsAdded unchanged, with and without date approximation.
C2_IdenticalAddIsNoOp ==
  [][\A e \in Engines : \A sub \in Submissions(profile.universe) :
       (/\ pc[e] = "loop"
        /\ HasId(itemsCached[e], sub.item.id)
        /\ Identical(sub, Find(itemsCached[e], sub.item.id))
        /\ AddItem(e, sub))
       => /\ itemsCached'[e] = itemsCached[e]
          /\ itemsAdded'[e] = itemsAdded[e]]_vars

\* C3: a toJSON that follows a toJSON of the same object with no add in
\* between and no entry expired at its `now` returns the same items and
\* issues no store write.
C3_RenderIdempotent ==
  [][\A e \in Engines :
       (/\ Returns(e)
        /\ ret[e].op = "toJSON"
        /\ clean(itemsCached[e], now[e]) = itemsCached[e]
        /\ clean(itemsAdded[e], now[e]) = itemsAdded[e])
       => /\ Items(feed'[e]) = Items(feed[e])
          /\ writes'[e] = writes[e]]_vars

\* C4: when a chunk of the flush a toJSON started fails, that toJSON fails
\* with the store's error: no toJSON has returned its document as the last
\* call of an object while a #write task rejected.
C4_FailedFlushFailsRender ==
  \A e \in Engines :
    unhandled[e] => ret[e] # [op |-> "toJSON", status |-> "ok"]

RECURSIVE Flatten(_)
Flatten(chunks) ==
  IF chunks = <<>> THEN <<>> ELSE Head(chunks) \o Flatten(Tail(chunks))

\* The operations of the #write tasks that a step of slot e puts in flight.
Issued(e) ==
  Flatten(Flatten([i \in 1..(Len(writes'[e]) - Len(writes[e])) |->
                     writes'[e][Len(writes[e]) + i].chunks]))

\* C5: a failed chunk leaves #itemsCached and #itemsAdded as they were
\* before the flush; every toJSON, and so the one that follows a failed
\* flush, issues a set for each pending entry that has not expired; and a
\* chunk that commits leaves each of its entries in the store under its key.
C5_FailedFlushIsRetried ==
  [][\A e \in Engines :
       /\ (unhandled'[e] /\ ~unhandled[e]) =>
            /\ itemsCached'[e] = itemsCached[e]
            /\ itemsAdded'[e] = itemsAdded[e]
       /\ Returns(e) =>
            /\ itemsAdded'[e] = clean(itemsAdded[e], now[e])
            /\ Issued(e) = WriteOps(prefix[e], itemsAdded'[e], now[e])
       /\ \A i \in 1..Len(writes[e]) :
            WriteCommit(e, i) =>
              \A j \in 1..Len(Head(writes[e][i].chunks)) :
                LET op == Head(writes[e][i].chunks)[j]
                IN kv'[op.key] # <<>> /\ kv'[op.key][1].value = op.value]_vars

\* The first chunk of a flush of two entries is committed, the second has
\* failed, and both entries are still pending.
C5_Witness ==
  \E e \in Engines :
    /\ unhandled[e]
    /\ Len(itemsAdded[e]) = 2
    /\ Committed(kv, prefix[e], itemsAdded[e][1])
    /\ kv[prefix[e] \o <<itemsAdded[e][2].item.id>>] = <<>>

\* The entry's expireAt is at or before instant t.
Expired(entry, t) == entry.expireAt # undefined /\ entry.expireAt[1] <= t

\* C6: the document of a toJSON has no item of an entry, loaded from the
\* store, cached or pending, whose expireAt is at or before the call's
\* `now`, and has the item of every entry without expireAt or with an
\* expireAt after it.
C6_ExpiredNeverRendered ==
  [][\A e \in Engines :
       Returns(e) =>
         LET src == read(e) \o itemsAdded[e]
         IN \A i \in 1..Len(src) :
              InSeq(src[i].item, Items(feed'[e])) <=> ~Expired(src[i], now[e])]_vars

\* A toJSON at the very instant of the expireAt of an entry it holds or is
\* about to load.
C6_Witness ==
  \E e \in Engines :
    /\ pc[e] = "toJSON"
    /\ \E i \in 1..Len(read(e) \o itemsAdded[e]) :
         (read(e) \o itemsAdded[e])[i].expireAt = <<now[e]>>

UniqueIds(entries) ==
  \A i, j \in 1..Len(entries) : entries[i].item.id = entries[j].item.id => i = j

\* C7: in every reachable state no id occurs twice in #itemsCached, twice
\* in #itemsAdded, or in both, and no document of a toJSON has two items
\* with the same id.
C7_IdsAreUnique ==
  \A e \in Engines :
    /\ UniqueIds(itemsCached[e] \o itemsAdded[e])
    /\ feed[e] # <<>> => UniqueIds(feed[e][1].entries)

\* A step of add's loop accepts submission `sub`, whose item differs from
\* the item of the cached entry with its id.
AcceptsChange(e, sub) ==
  /\ pc[e] = "loop"
  /\ HasId(itemsCached[e], sub.item.id)
  /\ ~Identical(sub, Find(itemsCached[e], sub.item.id))
  /\ AddItem(e, sub)
  /\ Len(itemsAdded'[e]) = Len(itemsAdded[e]) + 1

\* The entry a step of add's loop has pushed carries the call's `now` as
\* its modified date and the published date of the entry it replaces.
StampedFrom(e, existing) ==
  LET new == itemsAdded'[e][Len(itemsAdded'[e])].item
  IN /\ new.date_modified = <<toISOString(now[e])>>
     /\ new.date_published = existing.item.date_published

\* C8, as the spec states it: an accepted submission that differs from the
\* cached item is stored with date_modified the ISO string of the add's
\* `now` and date_published that of the cached entry.
C8_ChangeStamps ==
  [][\A e \in Engines : \A sub \in Submissions(profile.universe) :
       AcceptsChange(e, sub) =>
         StampedFrom(e, Find(itemsCached[e], sub.item.id))]_vars

\* C8, amended: the same for a submission with shouldApproximateDate set.
C8_ChangeStampsApproximated ==
  [][\A e \in Engines : \A sub \in Submissions(profile.universe) :
       (Truthy(sub.shouldApproximateDate) /\ AcceptsChange(e, sub)) =>
         StampedFrom(e, Find(itemsCached[e], sub.item.id))]_vars

\* A pending approximated entry whose modified date is later than its
\* published date.
C8_Witness ==
  \E e \in Engines : \E i \in 1..Len(itemsAdded[e]) :
    /\ Truthy(itemsAdded[e][i].shouldApproximateDate)
    /\ itemsAdded[e][i].item.date_published = <<toISOString(0)>>
    /\ itemsAdded[e][i].item.date_modified = <<toISOString(1)>>

\* C9: an approximated item that the last toJSON of an earlier session
\* returned with a published date and no modified date, from an entry that
\* does not expire, is submitted again with shouldApproximateDate as the
\* first submission of a later session: nothing becomes pending, so no
\* flush writes the id, and the session holds the item with the published
\* date of the earlier one and no modified date.
C9_ApproximationIsStable ==
  [][\A e \in Engines : \A sub \in Submissions(profile.universe) :
       \A i \in 1..(IF feed[e] = <<>> THEN 0 ELSE Len(feed[e][1].entries)) :
         LET shown == feed[e][1].entries[i] IN
         (/\ pc[e] = "loop"
          /\ feed[e][1].session < session[e]
          /\ itemsAdded[e] = <<>>
          /\ Truthy(shown.shouldApproximateDate)
          /\ shown.expireAt = undefined
          /\ shown.item.date_modified = undefined
          /\ Identical(sub, shown)
          /\ AddItem(e, sub))
         => /\ itemsAdded'[e] = <<>>
            /\ InSeq(shown.item, ItemsOf(itemsCached'[e]))]_vars

\* C10: an entry committed in the store is loaded by the first call of
\* every later session on the prefix unless it has expired; a cached entry
\* leaves #itemsCached only when it has expired, when an accepted
\* submission with its id takes its place in #itemsAdded, or with its
\* object; every toJSON returns the items of all cached and pending
\* entries; and a key of the store is emptied only after the expireAt of
\* its entry, by the store: the engine deletes nothing.
C10_PersistsUntilExpiry ==
  [][/\ \A e \in Engines :
          /\ (~initialized[e] /\ initialized'[e]) =>
               \A i \in Ids :
                 LET k == prefix[e] \o <<i>> IN
                 (kv[k] # <<>> /\ ~Expired(kv[k][1].value, now[e]))
                   => InSeq(kv[k][1].value, itemsCached'[e])
          /\ \A i \in 1..Len(itemsCached[e]) :
               LET x == itemsCached[e][i] IN
               \/ InSeq(x, itemsCached'[e])
               \/ Expired(x, now[e])
               \/ HasId(itemsAdded'[e], x.item.id) /\ ~HasId(itemsAdded[e], x.item.id)
               \/ session'[e] # session[e]
          /\ Returns(e) =>
               Items(feed'[e]) = ItemsOf(itemsCached'[e]) \o ItemsOf(itemsAdded'[e])
     /\ \A k \in Keys :
          (kv[k] # <<>> /\ kv'[k] = <<>>) => Expired(kv[k][1].value, currentDate)]_vars

\* The first call of a later session is a toJSON, with an entry in the
\* store that has not expired.
C10_Witness ==
  \E e \in Engines :
    /\ session[e] > 1
    /\ ~initialized[e]
    /\ pc[e] = "toJSON"
    /\ \E i \in Ids :
         /\ kv[prefix[e] \o <<i>>] # <<>>
         /\ ~Expired(kv[prefix[e] \o <<i>>][1].value, now[e])

\* The id is the id of an entry of the sequence.
Holds(entries, id) == \E i \in 1..Len(entries) : entries[i].item.id = id

\* The add call of slot e ends in this step by throwing the error.
Throws(e, error) ==
  /\ pc[e] = "loop"
  /\ pc'[e] = "idle"
  /\ ret'[e] = [op |-> "add", status |-> error]

\* C11: add fails with the duplicate error for every submission whose id
\* is the id of a pending entry, whichever add call or earlier submission
\* of the same call made it pending, and the submission is not added.
C11_DuplicateIsRejected ==
  [][\A e \in Engines : \A sub \in Submissions(profile.universe) :
       (pc[e] = "loop" /\ Holds(itemsAdded[e], sub.item.id) /\ AddItem(e, sub))
       => /\ Throws(e, "Already added")
          /\ itemsAdded'[e] = itemsAdded[e]
          /\ itemsCached'[e] = itemsCached[e]]_vars

\* An add call has thrown the duplicate error with an entry pending.
C11_Witness ==
  \E e \in Engines :
    /\ ret[e] = [op |-> "add", status |-> "Already added"]
    /\ itemsAdded[e] # <<>>

\* C12, as the spec states it: in the first session on the store, where
\* every rendered entry was submitted in the session, every submission of
\* an id that a toJSON of the session has returned fails with the
\* duplicate error.
C12_OncePerSession ==
  [][\A e \in Engines : \A sub \in Submissions(profile.universe) :
       (/\ pc[e] = "loop"
        /\ session[e] = 1
        /\ feed[e] # <<>>
        /\ Holds(feed[e][1].entries, sub.item.id)
        /\ AddItem(e, sub))
       => Throws(e, "Already added")]_vars

\* C12, amended: a submission fails with the duplicate error exactly when
\* an entry with its id is pending at that moment.
C12_DuplicateOnlyWhilePending ==
  [][\A e \in Engines : \A sub \in Submissions(profile.universe) :
       (pc[e] = "loop" /\ AddItem(e, sub))
       => (Throws(e, "Already added") <=> Holds(itemsAdded[e], sub.item.id))]_vars

\* In the first session an add call has returned with an entry pending
\* whose id a toJSON of the session had already returned.
C12_Witness ==
  \E e \in Engines :
    /\ session[e] = 1
    /\ feed[e] # <<>>
    /\ ret[e] = AddOk
    /\ \E i \in 1..Len(itemsAdded[e]) :
         Holds(feed[e][1].entries, itemsAdded[e][i].item.id)

\* The add call of slot e goes on after this step: to its next submission,
\* or to its return when there is none.
GoesOn(e) ==
  IF argc[e] > 1
  THEN pc'[e] = "loop" /\ argc'[e] = argc[e] - 1
  ELSE pc'[e] = "idle" /\ ret'[e] = AddOk

\* C13, as the spec states it: a submission whose expireAt is at or before
\* the add call's `now` raises no error, is not added, changes no cached
\* entry, and the call goes on.
C13_ExpiredIsSkipped ==
  [][\A e \in Engines : \A sub \in Submissions(profile.universe) :
       (pc[e] = "loop" /\ Expired(sub, now[e]) /\ AddItem(e, sub))
       => /\ GoesOn(e)
          /\ itemsAdded'[e] = itemsAdded[e]
          /\ itemsCached'[e] = itemsCached[e]]_vars

\* C13, amended: the same for a submission whose id is not pending.
C13_ExpiredIsSkippedUnlessDuplicate ==
  [][\A e \in Engines : \A sub \in Submissions(profile.universe) :
       (/\ pc[e] = "loop"
        /\ Expired(sub, now[e])
        /\ ~Holds(itemsAdded[e], sub.item.id)
        /\ AddItem(e, sub))
       => /\ GoesOn(e)
          /\ itemsAdded'[e] = itemsAdded[e]
          /\ itemsCached'[e] = itemsCached[e]]_vars

\* An add call of two submissions is at its first, at an instant at which
\* submissions have expired, with an entry cached and none pending.
C13_Witness ==
  \E e \in Engines :
    /\ pc[e] = "loop"
    /\ argc[e] = 2
    /\ now[e] = 1
    /\ itemsCached[e] # <<>>
    /\ itemsAdded[e] = <<>>

\* The add call of slot e ends in this step by throwing an error.
Fails(e) ==
  /\ pc[e] = "loop"
  /\ pc'[e] = "idle"
  /\ ret'[e].op = "add"
  /\ ret'[e].status # "ok"

\* The submission asks for approximation and its item carries a date.
Conflicting(sub) ==
  /\ sub.shouldApproximateDate = "true"
  /\ (sub.item.date_published # undefined \/ sub.item.date_modified # undefined)

ConflictErrors ==
  {"Should approximate date but already has published date",
   "Should approximate date but already has modified date"}

\* C14, as the spec states it: add fails with an error for every
\* submission that sets shouldApproximateDate and carries a date, with or
\* without a cached entry of its id; nothing is added and cached is
\* unchanged.
C14_ConflictingDatesRejected ==
  [][\A e \in Engines : \A sub \in Submissions(profile.universe) :
       (pc[e] = "loop" /\ Conflicting(sub) /\ AddItem(e, sub))
       => /\ Fails(e)
          /\ itemsAdded'[e] = itemsAdded[e]
          /\ itemsCached'[e] = itemsCached[e]]_vars

\* C14, amended: the same for a submission that has not expired, the
\* error being the one about the date unless the id is pending.
C14_ConflictingDatesRejectedUnlessExpired ==
  [][\A e \in Engines : \A sub \in Submissions(profile.universe) :
       (pc[e] = "loop" /\ Conflicting(sub) /\ ~Expired(sub, now[e]) /\ AddItem(e, sub))
       => /\ Fails(e)
          /\ Holds(itemsAdded[e], sub.item.id) \/ ret'[e].status \in ConflictErrors
          /\ itemsAdded'[e] = itemsAdded[e]
          /\ itemsCached'[e] = itemsCached[e]]_vars

\* An add call has thrown the error about a modified date while an entry
\* is cached.
C14_Witness ==
  \E e \in Engines :
    /\ ret[e] = [op |-> "add",
                 status |-> "Should approximate date but already has modified date"]
    /\ itemsCached[e] # <<>>

\* Slot e caches at position i an unexpired entry of the submission's id
\* and exactly one of the two has approximation on.
Mismatch(e, i, sub) ==
  /\ i \in 1..Len(itemsCached[e])
  /\ itemsCached[e][i].item.id = sub.item.id
  /\ ~Expired(itemsCached[e][i], now[e])
  /\ (itemsCached[e][i].shouldApproximateDate = "true")
       # (sub.shouldApproximateDate = "true")

MismatchError(sub, entry) ==
  "Should approximate date " \o sub.shouldApproximateDate
    \o " differs from existing " \o entry.shouldApproximateDate

\* C15, as the spec states it: when an unexpired cached entry of the id
\* exists and exactly one of the cached entry and the submission has
\* approximation on, add fails with an error, the cached entry stays and
\* nothing is added.
C15_MismatchRejected ==
  [][\A e \in Engines : \A sub \in Submissions(profile.universe) :
       \A i \in 1..MaxItems :
         (pc[e] = "loop" /\ Mismatch(e, i, sub) /\ AddItem(e, sub))
         => /\ Fails(e)
            /\ itemsAdded'[e] = itemsAdded[e]
            /\ itemsCached'[e] = itemsCached[e]]_vars

\* C15, amended: the same for a submission that has not expired, the
\* error being the one about the mismatch unless the id is pending or the
\* submission carries a date.
C15_MismatchRejectedUnlessExpired ==
  [][\A e \in Engines : \A sub \in Submissions(profile.universe) :
       \A i \in 1..MaxItems :
         (pc[e] = "loop" /\ Mismatch(e, i, sub) /\ ~Expired(sub, now[e])
            /\ AddItem(e, sub))
         => /\ Fails(e)
            /\ \/ Holds(itemsAdded[e], sub.item.id)
               \/ Conflicting(sub)
               \/ ret'[e].status = MismatchError(sub, itemsCached[e][i])
            /\ itemsAdded'[e] = itemsAdded[e]
            /\ itemsCached'[e] = itemsCached[e]]_vars

\* An add call has thrown the error about the mismatch, in each direction,
\* and the cached entry is still there.
C15_Witness ==
  \E e \in Engines :
    /\ itemsCached[e] # <<>>
    /\ ret[e] \in {[op |-> "add",
                     status |-> "Should approximate date true differs from existing undefined"],
                    [op |-> "add",
                     status |-> "Should approximate date undefined differs from existing true"]}

\* The submission passes the validation of add in slot e: its id is not
\* pending, it has not expired and it carries no date to approximate.
Valid(e, sub) ==
  /\ ~Holds(itemsAdded[e], sub.item.id)
  /\ ~Expired(sub, now[e])
  /\ ~Conflicting(sub)

\* The entry add appends for a submission of an id that is not cached.
NewEntry(sub, t) ==
  [item |-> [id |-> sub.item.id,
             content |-> sub.item.content,
             date_published |-> IF sub.shouldApproximateDate = "true"
                                THEN <<ToString(t)>>
                                ELSE sub.item.date_published,
             date_modified |-> sub.item.date_modified],
   expireAt |-> sub.expireAt,
   shouldApproximateDate |-> sub.shouldApproximateDate]

Live(entries, t) == SelectSeq(entries, LAMBDA entry : ~Expired(entry, t))

\* The sequence without its entries of the id, in their order.
Others(entries, id) == SelectSeq(entries, LAMBDA entry : entry.item.id # id)

\* A step of add's loop accepts a submission in slot e.
Pushes(e) == pc[e] = "loop" /\ Len(itemsAdded'[e]) > Len(itemsAdded[e])

\* C17: the document of a toJSON lists the cached items in cached order,
\* then the pending items in the order add accepted them. A submission is
\* accepted at the end of pending, and it takes the cached entry of its id
\* out of cached without moving the others, so that a replaced item is
\* rendered once, at its place among the pending ones.
C17_RenderOrder ==
  [][\A e \in Engines :
       /\ Returns(e) =>
            /\ feed'[e][1].entries = itemsCached'[e] \o Live(itemsAdded[e], now[e])
            /\ initialized[e] => itemsCached'[e] = Live(itemsCached[e], now[e])
            /\ UniqueIds(feed'[e][1].entries)
       /\ \A sub \in Submissions(profile.universe) :
            (Pushes(e) /\ AddItem(e, sub)) =>
              /\ Len(itemsAdded'[e]) = Len(itemsAdded[e]) + 1
              /\ SubSeq(itemsAdded'[e], 1, Len(itemsAdded[e])) = itemsAdded[e]
              /\ itemsAdded'[e][Len(itemsAdded'[e])].item.id = sub.item.id
              /\ itemsCached'[e] = Others(itemsCached[e], sub.item.id)]_vars

\* Item 1 was in the store when it was submitted again and accepted; the
\* document of the toJSON after that lists it once, after the cached item
\* 2, while the write of its new entry is still to be committed.
C17_Witness ==
  \E e \in Engines :
    /\ ret[e] = [op |-> "toJSON", status |-> "ok"]
    /\ feed[e] # <<>>
    /\ Len(feed[e][1].entries) = 2
    /\ feed[e][1].entries[1].item.id = "2"
    /\ feed[e][1].entries[2].item.id = "1"
    /\ itemsAdded[e] = <<feed[e][1].entries[2]>>
    /\ Len(writes[e]) = 1
    /\ Len(writes[e][1].chunks) = 1
    /\ kv[prefix[e] \o <<"1">>] # <<>>
    /\ kv[prefix[e] \o <<"2">>] # <<>>

\* C18: add is not transactional. When a submission fails validation the
\* call ends there: cached and pending are as the submissions before it
\* left them, the failing one changes nothing, and the submissions after
\* it are not processed.
C18_AddIsNotTransactional ==
  [][\A e \in Engines :
       Fails(e) => /\ itemsAdded'[e] = itemsAdded[e]
                   /\ itemsCached'[e] = itemsCached[e]
                   /\ argc'[e] = 0
                   /\ kv' = kv]_vars

\* The first add call of an object has thrown on a duplicate, on an empty
\* store, and an accepted entry is pending.
C18_Witness ==
  \E e \in Engines :
    /\ ret[e] = [op |-> "add", status |-> "Already added"]
    /\ Len(itemsAdded[e]) = 1
    /\ itemsCached[e] = <<>>
    /\ feed[e] = <<>>
    /\ \A k \in Keys : kv[k] = <<>>

\* The object in slot e caches at position i an entry that a toJSON of an
\* earlier session rendered, and the submission resubmits its content with
\* a later expireAt.
Resubmits(e, i, sub) ==
  /\ feed[e] # <<>>
  /\ feed[e][1].session < session[e]
  /\ i \in 1..Len(itemsCached[e])
  /\ InSeq(itemsCached[e][i], feed[e][1].entries)
  /\ Identical(sub, itemsCached[e][i])
  /\ itemsCached[e][i].expireAt # undefined
  /\ sub.expireAt # undefined
  /\ sub.expireAt[1] > itemsCached[e][i].expireAt[1]

\* C19: when an entry's content is resubmitted in a later session with a
\* later expireAt, the entry of that id has the submitted expireAt from
\* then on, with and without approximation.
C19_ResubmissionExtendsExpiry ==
  [][\A e \in Engines : \A sub \in Submissions(profile.universe) :
       \A i \in 1..MaxItems :
         (pc[e] = "loop" /\ Resubmits(e, i, sub) /\ AddItem(e, sub))
         => LET entries == itemsCached'[e] \o itemsAdded'[e] IN
            /\ Holds(entries, sub.item.id)
            /\ \A j \in 1..Len(entries) :
                 entries[j].item.id = sub.item.id
                   => entries[j].expireAt = sub.expireAt]_vars

\* C20: engines on different prefixes are isolated, also when one prefix is
\* a proper leading part of the other: what an object loads on its first
\* call, and so renders, are entries written under its own prefix, each
\* the value of the key of its prefix and its id.
C20_PrefixIsolation ==
  [][\A e \in Engines :
       (~initialized[e] /\ initialized'[e])
       => \A i \in 1..Len(itemsCached'[e]) :
            Committed(kv, prefix[e], itemsCached'[e][i])]_vars

\* C21: a commit of a #write task sets every key of its chunk to the whole
\* entry of its set operation, whatever another object had written there,
\* leaves every other key alone, and changes #itemsCached and #itemsAdded
\* of no object; so after the commits of two objects on one prefix the key
\* holds the entry of the commit applied last.
C21_LastWriterWins ==
  [][\A e \in Engines : \A i \in 1..MaxWrites :
       (i <= Len(writes[e]) /\ WriteCommit(e, i))
       => LET ops == Head(writes[e][i].chunks) IN
          /\ \A j \in 1..Len(ops) :
               /\ kv'[ops[j].key] # <<>>
               /\ kv'[ops[j].key][1].value = ops[j].value
          /\ \A k \in Keys :
               (\A j \in 1..Len(ops) : ops[j].key # k) => kv'[k] = kv[k]
          /\ itemsCached' = itemsCached
          /\ itemsAdded' = itemsAdded]_vars

\* Two objects on one prefix have each flushed their version of item 1: each
\* caches its own, and the store holds the one of the second.
C21_Witness ==
  /\ prefix[1] = prefix[2]
  /\ writes[1] = <<>> /\ writes[2] = <<>>
  /\ itemsAdded[1] = <<>> /\ itemsAdded[2] = <<>>
  /\ Len(itemsCached[1]) = 1 /\ Len(itemsCached[2]) = 1
  /\ itemsCached[1][1].item.id = itemsCached[2][1].item.id
  /\ itemsCached[1][1].item.content # itemsCached[2][1].item.content
  /\ Committed(kv, prefix[2], itemsCached[2][1])

\* C22: no pending entry is lost. An entry that enters #itemsCached of an
\* object after its load has been committed to the store under the object's
\* prefix and its id (where the store may since have deleted it as
\* expired).
C22_NoLostPendingEntry ==
  [][\A e \in Engines :
       (initialized[e] /\ session'[e] = session[e])
       => \A i \in 1..Len(itemsCached'[e]) :
            LET entry == itemsCached'[e][i] IN
            \/ InSeq(entry, itemsCached[e])
            \/ Committed(kv, prefix[e], entry)
            \/ Expired(entry, currentDate)]_vars

\* The document that toJSON returns in this step for slot e is later than
\* the replacement x: it is of the session of the replacement, or it is the
\* first of a later session and the last document of the session of the
\* replacement was already without the replaced item.
LaterThan(e, x) ==
  \/ x.session = session[e]
  \/ /\ feed[e] # <<>>
     /\ feed[e][1].session = x.session
     /\ ~InSeq(x.item, Items(feed[e]))

\* C23: a version that add has replaced never comes back. No document of a
\* toJSON later than the replacement, of its session or of a later one, has
\* the item that was replaced, unless add has accepted that very item again
\* since.
C23_ReplacedNeverReturns ==
  [][\A e \in Engines :
       Returns(e) => \A x \in replaced[e] :
                       LaterThan(e, x) => ~InSeq(x.item, Items(feed'[e]))]_vars

\* The object in slot e caches at position i an approximated entry that a
\* toJSON of an earlier session rendered and whose item carries the
\* date_modified of an accepted change, and the submission is the caller's
\* content of that entry: its item without the two dates, with
\* approximation.
ResubmitsChanged(e, i, sub) ==
  /\ feed[e] # <<>>
  /\ feed[e][1].session < session[e]
  /\ i \in 1..Len(itemsCached[e])
  /\ InSeq(itemsCached[e][i], feed[e][1].entries)
  /\ itemsCached[e][i].shouldApproximateDate = "true"
  /\ itemsCached[e][i].item.date_modified # undefined
  /\ sub.shouldApproximateDate = "true"
  /\ sub.item = [itemsCached[e][i].item EXCEPT !.date_published = undefined,
                                               !.date_modified = undefined]

\* C24: no spurious modified bump after a change. Resubmitting in a later
\* session the content that produced an approximated entry with a stamped
\* date_modified is a no-op: the cached entry stays as it is, with its
\* dates, and nothing becomes pending, so that no write is issued for it.
C24_NoBumpAfterChange ==
  [][\A e \in Engines : \A sub \in Submissions(profile.universe) :
       \A i \in 1..MaxItems :
         (pc[e] = "loop" /\ itemsAdded[e] = <<>> /\ ResubmitsChanged(e, i, sub)
            /\ AddItem(e, sub))
         => /\ itemsCached'[e] = itemsCached[e]
            /\ itemsAdded'[e] = <<>>]_vars

\* C25: a flush partitions the pending entries that are left after
\* pruning, in order, into consecutive chunks of at most
\* DENO_KV_MAX_BATCH_SIZE set operations, every chunk but the last one
\* full, one operation per entry with key prefix + id and the entry as
\* value; each commit is the transaction of one chunk; and with nothing
\* pending after pruning no task is started.
C25_FlushBatching ==
  [][\A e \in Engines :
       /\ Returns(e) =>
            LET pending == Live(itemsAdded[e], now[e]) IN
            IF pending = <<>> THEN writes'[e] = writes[e]
            ELSE /\ Len(writes'[e]) = Len(writes[e]) + 1
                 /\ SubSeq(writes'[e], 1, Len(writes[e])) = writes[e]
                 /\ LET chunks == writes'[e][Len(writes'[e])].chunks
                        ops == Flatten(chunks)
                    IN /\ \A c \in 1..Len(chunks) :
                            /\ Len(chunks[c]) >= 1
                            /\ Len(chunks[c]) <= DENO_KV_MAX_BATCH_SIZE
                            /\ c < Len(chunks) => Len(chunks[c]) = DENO_KV_MAX_BATCH_SIZE
                       /\ Len(ops) = Len(pending)
                       /\ \A j \in 1..Len(ops) :
                            /\ ops[j].key = prefix[e] \o <<pending[j].item.id>>
                            /\ ops[j].value = pending[j]
       /\ \A i \in 1..MaxWrites :
            (i <= Len(writes[e]) /\ writes[e][i].live /\ WriteCommit(e, i))
            => writes'[e][i].chunks = Tail(writes[e][i].chunks)]_vars

\* A flush of two pending entries is in flight in two chunks.
C25_Witness ==
  \E e \in Engines :
    /\ Len(itemsAdded[e]) = 2
    /\ Len(writes[e]) = 1
    /\ writes[e][1].live
    /\ Len(writes[e][1].chunks) = 2
    /\ ret[e] = [op |-> "toJSON", status |-> "ok"]

\* C26: every set operation that a toJSON issues has as its time to live
\* the entry's expireAt less the call's `now`, which is more than zero
\* since the call has pruned the pending entries at that `now`, and no time
\* to live when the entry has no expireAt.
C26_TimeToLive ==
  [][\A e \in Engines :
       Returns(e) =>
         \A j \in 1..Len(Issued(e)) :
           LET op == Issued(e)[j] IN
           IF op.value.expireAt = undefined
           THEN op.expireIn = undefined
           ELSE /\ op.expireIn # undefined
                /\ op.expireIn[1] + now[e] = op.value.expireAt[1]
                /\ op.expireIn[1] > 0]_vars

\* A flush issued after the clock had moved is in flight for an entry with
\* an expireAt, with a time to live shorter than the instant of expireAt;
\* one for an entry without expireAt has been committed.
C26_Witness ==
  \E e \in Engines :
    /\ Len(writes[e]) = 1
    /\ writes[e][1].chunks # <<>>
    /\ writes[e][1].chunks[1][1].expireIn # undefined
    /\ writes[e][1].chunks[1][1].expireIn[1] < writes[e][1].chunks[1][1].value.expireAt[1]
    /\ \E k \in Keys : kv[k] # <<>> /\ kv[k][1].deadline = undefined

\* The store holds under the object's prefix and the id an entry that has
\* expired at the call's `now`, and the object holds no entry of the id that
\* has not.
ExpiredInStore(e, id) ==
  /\ kv[prefix[e] \o <<id>>] # <<>>
  /\ Expired(kv[prefix[e] \o <<id>>][1].value, now[e])
  /\ \A i \in 1..Len(itemsCached[e]) :
       itemsCached[e][i].item.id = id => Expired(itemsCached[e][i], now[e])

\* C27: an expired cached entry counts as absent during add. A valid
\* submission of an id whose entry in the store has expired at the call's
\* `now` is accepted as a new item whatever the flag and the item of the
\* expired entry: no error, no discard, and with approximation the
\* date_published of the call's `now`.
C27_ExpiredCountsAsAbsent ==
  [][\A e \in Engines : \A sub \in Submissions(profile.universe) :
       (pc[e] = "loop" /\ ExpiredInStore(e, sub.item.id) /\ Valid(e, sub)
          /\ AddItem(e, sub))
       => /\ itemsAdded'[e] = Append(itemsAdded[e], NewEntry(sub, now[e]))
          /\ ~Fails(e)]_vars

\* The store still holds the approximated entry of instant 0, expired, with
\* the same content as the pending entry, which add has stamped with the
\* later instant of its call.
C27_Witness ==
  \E e \in Engines :
    /\ Len(itemsAdded[e]) = 1
    /\ itemsCached[e] = <<>>
    /\ itemsAdded[e][1].shouldApproximateDate = "true"
    /\ itemsAdded[e][1].item.date_published = <<ToString(1)>>
    /\ itemsAdded[e][1].item.date_modified = undefined
    /\ LET k == prefix[e] \o <<itemsAdded[e][1].item.id>> IN
       /\ kv[k] # <<>>
       /\ Expired(kv[k][1].value, 1)
       /\ kv[k][1].value.shouldApproximateDate = "true"
       /\ kv[k][1].value.item.content = itemsAdded[e][1].item.content
       /\ kv[k][1].value.item.date_published = <<ToString(0)>>

\* C28: the store is listed once, in the first call of an object. That call
\* sets #itemsCached to what the store holds under the prefix, pruned at the
\* call's `now`; from then on the object stays initialized, and every entry
\* of #itemsCached was cached or pending in the object the step before, so
\* no entry another object writes after the load gets in.
C28_LoadOnce ==
  [][\A e \in Engines :
       /\ (~initialized[e] /\ initialized'[e])
            => /\ pc[e] \in {"add", "toJSON"}
               /\ itemsCached'[e] = clean(List(kv, prefix[e]), now[e])
       /\ (initialized[e] /\ session'[e] = session[e])
            => /\ initialized'[e]
               /\ \A i \in 1..Len(itemsCached'[e]) :
                    \/ InSeq(itemsCached'[e][i], itemsCached[e])
                    \/ InSeq(itemsCached'[e][i], itemsAdded[e])]_vars

\* Slot 1 is past the #read of an add call, slot 2 has committed and folded
\* another version of the id under the same prefix before that call, and
\* slot 1 still has the version it had.
C28_Witness ==
  /\ Engines \subseteq profile.engines
  /\ prefix[1] = prefix[2]
  /\ pc[1] = "loop"
  /\ Len(itemsCached[1]) = 1
  /\ Len(itemsCached[2]) = 1
  /\ itemsCached[1][1].item.id = itemsCached[2][1].item.id
  /\ itemsCached[1][1] # itemsCached[2][1]
  /\ Committed(kv, prefix[1], itemsCached[2][1])

\* What `await this.#read()` leaves to prune: the entries of the object, or
\* on its first call those of the store.
Loaded(e) == IF initialized[e] THEN itemsCached[e] ELSE List(kv, prefix[e])

\* C29: a call uses the `now` it has taken when it started, whatever the
\* clock shows when the call goes on after the store has answered: add and
\* toJSON prune the cached and the pending entries at that `now`; toJSON
\* derives every expireIn from it; add skips a submission that has expired
\* at it, accepts none that has, and every date it stamps is its ISO
\* string.
C29_OneNowPerCall ==
  [][\A e \in Engines :
       /\ (pc[e] \in {"add", "toJSON"} /\ pc'[e] # pc[e])
            => /\ itemsCached'[e] = Live(Loaded(e), now[e])
               /\ itemsAdded'[e] = Live(itemsAdded[e], now[e])
               /\ \A j \in 1..Len(Issued(e)) :
                    Issued(e)[j].expireIn # undefined
                      => Issued(e)[j].expireIn[1]
                           = Issued(e)[j].value.expireAt[1] - now[e]
       /\ \A sub \in Submissions(profile.universe) :
            (pc[e] = "loop" /\ AddItem(e, sub)) =>
              /\ (Expired(sub, now[e]) /\ ~Holds(itemsAdded[e], sub.item.id))
                   => /\ itemsAdded'[e] = itemsAdded[e]
                      /\ itemsCached'[e] = itemsCached[e]
                      /\ ~Fails(e)
              /\ Pushes(e) =>
                   LET entry == itemsAdded'[e][Len(itemsAdded'[e])] IN
                   /\ ~Expired(sub, now[e])
                   /\ (entry.item.date_modified # sub.item.date_modified)
                        => entry.item.date_modified = <<ToString(now[e])>>
                   /\ (entry.item.date_published # sub.item.date_published
                         /\ ~Holds(itemsCached[e], sub.item.id))
                        => entry.item.date_published = <<ToString(now[e])>>]_vars

\* The clock has moved to instant 1 while an add call that started at
\* instant 0 was waiting for #read, and the call has kept a cached entry
\* that expires at instant 1.
C29_Witness ==
  \E e \in Engines :
    /\ pc[e] = "loop"
    /\ now[e] = 0
    /\ currentDate = 1
    /\ \E i \in 1..Len(itemsCached[e]) : itemsCached[e][i].expireAt = <<1>>

\* The flag is omitted or false: approximation is off.
Off(flag) == flag \in {"undefined", "false"}

\* C30: a flag that is omitted and a flag that is false are the same
\* policy. A submission that the earlier checks let through, with the flag
\* off, of an id whose cached entry has not expired and has the flag off,
\* does not make add fail with the mismatch error.
C30_OmittedEqualsFalse ==
  [][\A e \in Engines : \A sub \in Submissions(profile.universe) :
       \A i \in 1..Len(itemsCached[e]) :
         (pc[e] = "loop" /\ AddItem(e, sub) /\ Valid(e, sub)
            /\ itemsCached[e][i].item.id = sub.item.id
            /\ Off(sub.shouldApproximateDate)
            /\ Off(itemsCached[e][i].shouldApproximateDate))
         => ~Throws(e, MismatchError(sub, itemsCached[e][i]))]_vars

\* What #itemsAdded can be when a toJSON of the callers of SpecLive returns.
Pendings == {<<sub>> : sub \in Submissions("plain")}

\* toJSON has returned to the caller of object n of slot e, and the entries
\* of P are pending.
Rendered(e, n, P) ==
  /\ session[e] = n
  /\ pc[e] = "idle"
  /\ ret[e] = [op |-> "toJSON", status |-> "ok"]
  /\ itemsAdded[e] = P

\* The claim's conditions no longer hold: a transaction has failed, a
\* further add call is made, or the caller has dropped the object.
GivenUp(e, n) ==
  \/ session[e] # n
  \/ unhandled[e]
  \/ pc[e] \in {"add", "loop"}

\* C31, as the spec states it: after a toJSON with pending entries, unless
\* a transaction fails or a further add is made, eventually #itemsAdded is
\* empty and every entry that was pending is in #itemsCached and in the
\* store under its key.
C31_FlushCompletes ==
  \A e \in Engines : \A n \in 1..MaxSessions : \A P \in Pendings :
    Rendered(e, n, P)
      ~> \/ GivenUp(e, n)
         \/ /\ itemsAdded[e] = <<>>
            /\ \A j \in 1..Len(P) :
                 /\ InSeq(P[j], itemsCached[e])
                 /\ Committed(kv, prefix[e], P[j])

\* C31 with the entries excused whose expireAt has passed meanwhile, which
\* a later call prunes and the store deletes: eventually #itemsAdded is
\* empty and every entry that was pending has expired or is in
\* #itemsCached and in the store under its key. It holds as long as no
\* toJSON is called while a #write task is in flight, and not otherwise.
C31_FlushCompletesUnlessExpired ==
  \A e \in Engines : \A n \in 1..MaxSessions : \A P \in Pendings :
    Rendered(e, n, P)
      ~> \/ GivenUp(e, n)
         \/ /\ itemsAdded[e] = <<>>
            /\ \A j \in 1..Len(P) :
                 \/ Expired(P[j], currentDate)
                 \/ /\ InSeq(P[j], itemsCached[e])
                    /\ Committed(kv, prefix[e], P[j])

====
